---------------------------- MODULE Spec2Model ----------------------------
(***************************************************************************)
(* A model of evennia/web/api/serializers.py: the Django-REST-Framework    *)
(* serializers of Evennia's web API (Attribute, Tag, simplified object     *)
(* reference, Object, Account and Script views).                           *)
(*                                                                         *)
(* Outbound conversion (to_representation) walks Meta.fields in order,     *)
(* skips write-only fields and stores one value per field; computed        *)
(* fields call the serializer's get_<field> method.  Inbound conversion    *)
(* (is_valid + save) keeps the writable fields of the payload and sets     *)
(* them on the instance.                                                   *)
(***************************************************************************)
EXTENDS Integers, Sequences, FiniteSets, TLC

VARIABLES
    \* ---- the stand-alone Attribute handled by AttributeSerializer
    attr,              \* the Attribute row
    attrOut,           \* last response body of the Attribute view
    attrReq,           \* last request: [op, data, partial, before]
    \* ---- the game world (owned by the persistence layer)
    db_key,            \* [Entities -> key]
    db_typeclass_path, \* [Entities -> path]
    db_tags,           \* [Entities -> set of Tag rows] (tags, aliases, permissions)
    db_attributes,     \* [Entities -> sequence of Attribute rows]
    db_location,       \* [Ids -> object id or None]
    db_home,           \* [Ids -> object id or None]
    destination,       \* [Ids -> object id or None]
    username,          \* the account's username
    sessions,          \* the account's session handler: obj.sessions.all()
    scriptdb,          \* the script's timing fields
    \* ---- the last response of an entity view
    out,               \* response body
    outView,           \* "none" | "object" | "account" | "script"
    outObj,            \* the entity it was made from
    lastReq,           \* last inbound request: [op, view, obj, data]
    nWrites,           \* inbound requests served so far
    \* ---- outbound conversions in progress, one per request
    pc,                \* [Reqs -> "idle" | "run" | "done"]
    reqView,           \* [Reqs -> view]
    reqObj,            \* [Reqs -> entity]
    reqPos,            \* [Reqs -> number of Meta.fields entries handled]
    reqOut             \* [Reqs -> the output built so far]

attrVars  == <<attr, attrOut, attrReq>>
worldVars == <<db_key, db_typeclass_path, db_tags, db_attributes, db_location,
               db_home, destination, username, sessions, scriptdb>>
respVars  == <<out, outView, outObj, lastReq, nWrites>>
reqVars   == <<pc, reqView, reqObj, reqPos, reqOut>>
vars      == <<attrVars, worldVars, respVars, reqVars>>

-----------------------------------------------------------------------------
(* Bounds of the model.                                                    *)

MaxObj == 3      \* objects have ids 1..MaxObj
MaxTag == 3      \* Tag rows have ids 1..MaxTag
MaxSess == 2     \* at most MaxSess sessions are connected to the account
MaxWrites == 2   \* inbound requests served in one behaviour

-----------------------------------------------------------------------------
(* Python values.                                                          *)

\* A null foreign key; primary keys start at 1.
None == 0

\* A Python value of an Attribute: None, an int or a str.
PyNone   == [t |-> "none", i |-> 0, s |-> ""]
PyInt(n) == [t |-> "int", i |-> n, s |-> ""]
PyStr(x) == [t |-> "str", i |-> 0, s |-> x]

\* bool(v)
Truthy(v) ==
    CASE v.t = "none" -> FALSE
      [] v.t = "int"  -> v.i # 0
      [] v.t = "str"  -> v.s # ""

Digit(d) == CASE d = 0 -> "0" [] d = 1 -> "1" [] d = 2 -> "2" [] d = 3 -> "3"
              [] d = 4 -> "4" [] d = 5 -> "5" [] d = 6 -> "6" [] d = 7 -> "7"
              [] d = 8 -> "8" [] d = 9 -> "9"

RECURSIVE NatStr(_)
NatStr(n) == IF n < 10 THEN Digit(n) ELSE NatStr(n \div 10) \o Digit(n % 10)

\* str(v)
Str(v) ==
    CASE v.t = "none" -> "None"
      [] v.t = "int"  -> IF v.i < 0 THEN "-" \o NatStr(-v.i) ELSE NatStr(v.i)
      [] v.t = "str"  -> v.s

\* The empty mapping.
Empty == [f \in {} |-> 0]

\* m with key f set to v.
Put(m, f, v) == [g \in DOMAIN m \cup {f} |-> IF g = f THEN v ELSE m[g]]

\* m restricted to the keys in S.
Restrict(m, S) == [g \in DOMAIN m \cap S |-> m[g]]

Range(s) == {s[i] : i \in DOMAIN s}

\* [x for x in s if Test(x)]
RECURSIVE SelectSeqBy(_, _)
SelectSeqBy(s, keep) ==
    IF s = <<>> THEN <<>>
    ELSE (IF Head(s) \in keep THEN <<Head(s)>> ELSE <<>>) \o SelectSeqBy(Tail(s), keep)

-----------------------------------------------------------------------------
(* AttributeSerializer.                                                    *)

AttributeFields == <<"db_key", "db_category", "db_attrtype", "value_display", "db_value">>

\* A variant that declares no field write-only.
AttributeWriteOnlyNone == {}

\* db_value = CharField(write_only=True, required=False)
AttributeWriteOnly == {"db_value"}

\* value_display = SerializerMethodField(...): always read-only
AttributeReadOnly == {"value_display"}

\* Fields a full (non-partial) payload must carry: the model-backed writable
\* fields, minus those declared required=False.
AttributeRequired == {"db_key", "db_category", "db_attrtype"}

\* Attribute.value: the typed value unpickled from db_value.
AttrValue(obj) == obj.db_value

\* if obj.db_strvalue: return obj.db_strvalue; return str(obj.value)
get_value_display(obj) ==
    IF Truthy(obj.db_strvalue) THEN obj.db_strvalue.s ELSE Str(AttrValue(obj))

\* One field of the Attribute view.
AttributeFieldValue(f, obj) ==
    CASE f = "db_key"        -> obj.db_key
      [] f = "db_category"   -> obj.db_category
      [] f = "db_attrtype"   -> obj.db_attrtype
      [] f = "value_display" -> get_value_display(obj)
      [] f = "db_value"      -> Str(obj.db_value)

\* AttributeSerializer(obj).data
AttributeRepr(obj) ==
    [f \in Range(AttributeFields) \ AttributeWriteOnly |-> AttributeFieldValue(f, obj)]

\* AttributeSerializer(data=..., partial=...).is_valid()
AttributeIsValid(data, partial) ==
    partial \/ AttributeRequired \subseteq DOMAIN data

\* validated_data: the payload's writable fields.
AttributeValidated(data) ==
    Restrict(data, Range(AttributeFields) \ AttributeReadOnly)

\* ModelSerializer.update: setattr(instance, field, value) for each validated
\* field.  value_display has no writable source unless it were declared
\* writable, when it would write Attribute.value.
AttributeUpdated(obj, v) ==
    [obj EXCEPT
        !.db_key      = IF "db_key" \in DOMAIN v THEN v["db_key"] ELSE @,
        !.db_category = IF "db_category" \in DOMAIN v THEN v["db_category"] ELSE @,
        !.db_attrtype = IF "db_attrtype" \in DOMAIN v THEN v["db_attrtype"] ELSE @,
        !.db_value    = IF "db_value" \in DOMAIN v THEN PyStr(v["db_value"])
                        ELSE IF "value_display" \in DOMAIN v THEN PyStr(v["value_display"])
                        ELSE @]

\* Inputs.
AttrKeys == {"hp"}
AttrCategories == {"", "stats"}
AttrTypes == {"", "nick"}
StrValues == {PyNone, PyStr(""), PyStr("tall")}
Values == {PyNone, PyInt(0), PyInt(12), PyInt(-7), PyStr("x")}
Attributes ==
    [db_key : AttrKeys, db_category : AttrCategories, db_attrtype : AttrTypes,
     db_strvalue : StrValues, db_value : Values]

\* Payloads of the Attribute view: any subset of its fields, one candidate
\* value per field.
AttrCandidate(f) ==
    CASE f = "db_key" -> "mp" [] f = "db_category" -> "stats" [] f = "db_attrtype" -> "nick"
      [] f = "value_display" -> "shown" [] f = "db_value" -> "raw"
AttrPayloads == {[f \in S |-> AttrCandidate(f)] : S \in SUBSET Range(AttributeFields)}

NoReq == [op |-> "none", data |-> Empty, partial |-> FALSE, before |-> PyNone]

-----------------------------------------------------------------------------
(* The game world.                                                         *)

Ids == 1 .. MaxObj
Obj(i) == <<"object", i>>
TheAccount == <<"account", 1>>
TheScript == <<"script", 1>>
Entities == {Obj(i) : i \in Ids} \cup {TheAccount, TheScript}
Pk(e) == e[2]

\* Tag rows.  Plain tags have no tag type; aliases and permissions are Tag
\* rows of type "alias" and "permission".  Rows 1, 2, 3 share one key.
NoTagType == "null"
TagTypeOf(k) ==
    CASE k % 3 = 1 -> NoTagType [] k % 3 = 2 -> "alias" [] k % 3 = 0 -> "permission"
TagRow(k) ==
    [id |-> k, db_key |-> "k" \o NatStr((k - 1) \div 3), db_category |-> "null",
     db_data |-> "null", db_tagtype |-> TagTypeOf(k)]
TagPool == {TagRow(k) : k \in 1 .. MaxTag}

\* The rows of set S in id order.
RECURSIVE InIdOrder(_)
InIdOrder(S) ==
    IF S = {} THEN <<>>
    ELSE LET m == CHOOSE x \in S : \A y \in S : x.id <= y.id
         IN  <<m>> \o InIdOrder(S \ {m})

\* obj.<handler>.get(return_tagobj=True, return_list=True): the Tag rows of the
\* entity that belong to the handler.
HandlerGet(obj, tagtype) == InIdOrder({t \in db_tags[obj] : t.db_tagtype = tagtype})
TagHandler(obj) == HandlerGet(obj, NoTagType)
AliasHandler(obj) == HandlerGet(obj, "alias")
PermissionHandler(obj) == HandlerGet(obj, "permission")

\* The ids in S in ascending order.
RECURSIVE Ascending(_)
Ascending(S) ==
    IF S = {} THEN <<>>
    ELSE LET m == CHOOSE x \in S : \A y \in S : x <= y
         IN  <<m>> \o Ascending(S \ {m})

\* obj.contents: the objects located in obj.
ContentsOf(loc, o) == Ascending({x \in DOMAIN loc : loc[x] = o})
Contents(o) == ContentsOf(db_location, o)

\* Sessions: plain objects; a session may or may not carry a sessid.
SessionPool ==
    {[sessid |-> n, protocol |-> "telnet"] : n \in 1 .. MaxSess} \cup {[protocol |-> "web"]}
SessionLists ==
    UNION {{s \in [1 .. n -> SessionPool] : \A i, j \in 1 .. n : s[i] = s[j] => i = j}
           : n \in 0 .. MaxSess}

-----------------------------------------------------------------------------
(* TagSerializer, SimpleObjectDBSerializer.                                *)

TagFields == <<"db_key", "db_category", "db_data", "db_tagtype">>

\* TagSerializer(tag).data
TagRepr(tag) == [f \in Range(TagFields) |-> tag[f]]

\* TagSerializer(tags, many=True).data
TagReprMany(tags) == [i \in 1 .. Len(tags) |-> TagRepr(tags[i])]

\* AttributeSerializer(many=True, read_only=True)
AttributeReprMany(attrs) == [i \in 1 .. Len(attrs) |-> AttributeRepr(attrs[i])]

\* A variant that also lists what the referenced object contains.
SimpleFieldsDeep == <<"id", "db_key", "contents">>

\* Meta.fields of SimpleObjectDBSerializer
SimpleFields == <<"id", "db_key">>

\* getattr(ob, f) for an object.
ObjectAttr(f, ob) ==
    CASE f = "id"          -> ob
      [] f = "db_key"      -> db_key[Obj(ob)]
      [] f = "db_location" -> db_location[ob]
      [] f = "db_home"     -> db_home[ob]
      [] f = "destination" -> destination[ob]
      [] f = "contents"    -> Contents(ob)

\* SimpleObjectDBSerializer(ob).data
SimpleObjectDBRepr(ob) == [f \in Range(SimpleFields) |-> ObjectAttr(f, ob)]

\* SimpleObjectDBSerializer(obs, many=True).data
SimpleObjectDBReprMany(obs) == [i \in 1 .. Len(obs) |-> SimpleObjectDBRepr(obs[i])]

-----------------------------------------------------------------------------
(* TypeclassSerializerMixin.                                               *)

\* A variant that leaves permissions out.
shared_fields_NoPermissions ==
    <<"id", "db_key", "db_attributes", "db_typeclass_path", "aliases", "tags">>

shared_fields ==
    <<"id", "db_key", "db_attributes", "db_typeclass_path", "aliases", "tags", "permissions">>

get_tags(obj) == TagReprMany(TagHandler(obj))

\* A variant that asks the tag handler for the aliases.
get_aliases_FromTags(obj) == TagReprMany(TagHandler(obj))

get_aliases(obj) == TagReprMany(AliasHandler(obj))

get_permissions(obj) == TagReprMany(PermissionHandler(obj))

-----------------------------------------------------------------------------
(* ObjectDBSerializer.                                                     *)

ObjectFields == <<"db_location", "db_home", "contents", "exits">> \o shared_fields

\* id and db_attributes (Meta.read_only_fields, read_only=True) and the five
\* SerializerMethodFields.
ObjectReadOnly ==
    {"id", "db_attributes", "contents", "exits", "tags", "aliases", "permissions"}

\* A variant that does not look at the destination.
get_exits_All(o) == SimpleObjectDBReprMany(Contents(o))

\* exits = [ob for ob in obj.contents if ob.destination]
get_exits(o) ==
    LET exits == SelectSeqBy(Contents(o), {ob \in Ids : ObjectAttr("destination", ob) # None})
    IN  SimpleObjectDBReprMany(exits)

\* non_exits = [ob for ob in obj.contents if not ob.destination]
get_contents(o) ==
    LET non_exits ==
            SelectSeqBy(Contents(o), {ob \in Ids : ~(ObjectAttr("destination", ob) # None)})
    IN  SimpleObjectDBReprMany(non_exits)

-----------------------------------------------------------------------------
(* AccountSerializer.                                                      *)

AccountFields == <<"username", "session_ids">> \o shared_fields

\* Meta.read_only_fields (db_tags is no field of the view) and the four
\* SerializerMethodFields.
AccountReadOnly ==
    {"id", "db_attributes", "db_tags", "session_ids", "tags", "aliases", "permissions"}

\* hasattr(sess, name)
hasattr(sess, name) == name \in DOMAIN sess

\* A variant without the hasattr filter.
RECURSIVE SessidsAssumingAll(_)
SessidsAssumingAll(ss) ==
    IF ss = <<>> THEN <<>>
    ELSE <<(IF hasattr(Head(ss), "sessid") THEN Head(ss).sessid ELSE None)>>
         \o SessidsAssumingAll(Tail(ss))
get_session_ids_NoFilter(obj) == SessidsAssumingAll(sessions)


RECURSIVE Sessids(_)
Sessids(ss) ==
    IF ss = <<>> THEN <<>>
    ELSE (IF hasattr(Head(ss), "sessid") THEN <<Head(ss).sessid>> ELSE <<>>)
         \o Sessids(Tail(ss))

\* [sess.sessid for sess in obj.sessions.all() if hasattr(sess, "sessid")]
get_session_ids(obj) == Sessids(sessions)

-----------------------------------------------------------------------------
(* ScriptDBSerializer.                                                     *)

ScriptFields ==
    <<"db_interval", "db_persistent", "db_start_delay", "db_is_active", "db_repeats">>
    \o shared_fields

\* Meta.read_only_fields (db_tags is no field of the view) and the three
\* SerializerMethodFields.
ScriptReadOnly == {"id", "db_attributes", "db_tags", "tags", "aliases", "permissions"}

-----------------------------------------------------------------------------
(* The three full entity views.                                            *)

Views == {"object", "account", "script"}

Fields(view) ==
    CASE view = "object"  -> ObjectFields
      [] view = "account" -> AccountFields
      [] view = "script"  -> ScriptFields

ReadOnly(view) ==
    CASE view = "object"  -> ObjectReadOnly
      [] view = "account" -> AccountReadOnly
      [] view = "script"  -> ScriptReadOnly

\* No field of an entity view is declared write_only.
WriteOnly(view) == {}

\* The entities a view serves.
Targets(view) ==
    CASE view = "object"  -> {Obj(i) : i \in Ids}
      [] view = "account" -> {TheAccount}
      [] view = "script"  -> {TheScript}

\* The value one field of a view takes for entity obj.
FieldValue(view, f, obj) ==
    CASE f = "id"                -> Pk(obj)
      [] f = "db_key"            -> db_key[obj]
      [] f = "db_typeclass_path" -> db_typeclass_path[obj]
      [] f = "db_attributes"     -> AttributeReprMany(db_attributes[obj])
      [] f = "tags"              -> get_tags(obj)
      [] f = "aliases"           -> get_aliases(obj)
      [] f = "permissions"       -> get_permissions(obj)
      [] f = "db_location"       -> ObjectAttr("db_location", Pk(obj))
      [] f = "db_home"           -> ObjectAttr("db_home", Pk(obj))
      [] f = "contents"          -> get_contents(Pk(obj))
      [] f = "exits"             -> get_exits(Pk(obj))
      [] f = "username"          -> username
      [] f = "session_ids"       -> get_session_ids(obj)
      [] f \in {"db_interval", "db_persistent", "db_start_delay", "db_is_active",
                "db_repeats"}    -> scriptdb[f]

\* Serializer(obj).data: one entry per field that is not write-only.
Repr(view, obj) ==
    [f \in Range(Fields(view)) \ WriteOnly(view) |-> FieldValue(view, f, obj)]

-----------------------------------------------------------------------------
(* Initial states.                                                         *)

\* Two requests are served at a time.
Reqs == {"r1", "r2"}

\* The world a fresh game holds: room 1 with an exit (2) and a thing (3)
\* inside, every entity carrying every Tag row, one account with a telnet
\* and a web session, one script.
BaseKey == [e \in Entities |-> e[1] \o NatStr(e[2])]
BasePath == [e \in Entities |-> "typeclasses." \o e[1]]
BaseTags == [e \in Entities |-> TagPool]
BaseAttributes ==
    [e \in Entities |->
        <<[db_key |-> "hp", db_category |-> "", db_attrtype |-> "",
           db_strvalue |-> PyNone, db_value |-> PyInt(12)],
          [db_key |-> "desc", db_category |-> "", db_attrtype |-> "",
           db_strvalue |-> PyStr("tall"), db_value |-> PyNone]>>]
BaseLocation == [o \in Ids |-> IF o = 1 THEN None ELSE 1]
BaseHome == [o \in Ids |-> None]
BaseDestination == [o \in Ids |-> IF o = 2 THEN 1 ELSE None]
BaseSessions == <<[sessid |-> 1, protocol |-> "telnet"], [protocol |-> "web"]>>
BaseScript ==
    [db_interval |-> 10, db_persistent |-> FALSE, db_start_delay |-> FALSE,
     db_is_active |-> TRUE, db_repeats |-> 0]

InitAttr ==
    /\ attr = BaseAttributes[TheAccount][1]
    /\ attrOut = Empty
    /\ attrReq = NoReq
InitResp ==
    /\ out = Empty
    /\ outView = "none"
    /\ outObj = TheAccount
    /\ lastReq = [op |-> "none", view |-> "none", obj |-> TheAccount, data |-> Empty]
    /\ nWrites = 0
InitReqs ==
    /\ pc = [r \in Reqs |-> "idle"]
    /\ reqView = [r \in Reqs |-> "account"]
    /\ reqObj = [r \in Reqs |-> TheAccount]
    /\ reqPos = [r \in Reqs |-> 0]
    /\ reqOut = [r \in Reqs |-> Empty]
InitFixed ==
    /\ db_key = BaseKey
    /\ db_typeclass_path = BasePath
    /\ db_attributes = BaseAttributes
    /\ db_home = BaseHome
    /\ username = "admin"
    /\ scriptdb = BaseScript

\* Worlds that differ in where the objects are and which of them are exits.
InitContainment ==
    /\ db_location \in [Ids -> {None} \cup Ids]
    /\ destination \in [Ids -> {None, 1}]
    /\ db_tags = BaseTags
    /\ sessions = BaseSessions

\* Worlds that differ in the Tag rows of object 1, the account and the script.
InitTagged ==
    /\ db_tags \in {t \in [Entities -> SUBSET TagPool] :
                      \A e \in Entities \ {Obj(1), TheAccount, TheScript} : t[e] = {}}
    /\ db_location = BaseLocation
    /\ destination = BaseDestination
    /\ sessions = BaseSessions

\* Worlds that differ in the sessions connected to the account.
InitConnected ==
    /\ sessions \in SessionLists
    /\ db_tags = BaseTags
    /\ db_location = BaseLocation
    /\ destination = BaseDestination

\* A world without tags, attributes or sessions.
InitEmptyWorld ==
    /\ db_key = BaseKey
    /\ db_typeclass_path = BasePath
    /\ db_attributes = [e \in Entities |-> <<>>]
    /\ db_home = BaseHome
    /\ username = "admin"
    /\ scriptdb = BaseScript
    /\ db_location = BaseLocation
    /\ destination = BaseDestination
    /\ db_tags = [e \in Entities |-> {}]
    /\ sessions = <<>>

InitWorld == InitFixed /\ (InitContainment \/ InitTagged \/ InitConnected)

\* Worlds of the step-by-step conversions: objects 2.. are exits or not.
InitSmallWorld ==
    /\ InitFixed
    /\ db_location = BaseLocation
    /\ destination \in [Ids -> {None, 1}]
    /\ db_tags = BaseTags
    /\ sessions = BaseSessions

InitBaseWorld ==
    /\ InitFixed
    /\ db_location = BaseLocation
    /\ destination = BaseDestination
    /\ db_tags = BaseTags
    /\ sessions = BaseSessions

-----------------------------------------------------------------------------
(* Requests to the Attribute view.                                         *)

\* Outbound: AttributeSerializer(attr).data
AttrSerialize ==
    /\ attrOut' = AttributeRepr(attr)
    /\ attrReq' = [op |-> "read", data |-> Empty, partial |-> FALSE, before |-> attr]
    /\ UNCHANGED <<attr, worldVars, respVars, reqVars>>

\* Inbound: AttributeSerializer(attr, data=data, partial=partial), is_valid(),
\* save(); the response is the updated row's representation.
AttrUpdate(data, partial) ==
    /\ AttributeIsValid(data, partial)
    /\ attr' = AttributeUpdated(attr, AttributeValidated(data))
    /\ attrOut' = AttributeRepr(attr')
    /\ attrReq' = [op |-> "write", data |-> data, partial |-> partial, before |-> attr]
    /\ UNCHANGED <<worldVars, respVars, reqVars>>

\* Inbound, rejected by is_valid(): nothing is saved.
AttrReject(data, partial) ==
    /\ ~AttributeIsValid(data, partial)
    /\ attrOut' = Empty
    /\ attrReq' = [op |-> "invalid", data |-> data, partial |-> partial, before |-> attr]
    /\ UNCHANGED <<attr, worldVars, respVars, reqVars>>

NextAttr ==
    \/ AttrSerialize
    \/ \E data \in AttrPayloads, partial \in BOOLEAN : AttrUpdate(data, partial)
    \/ \E data \in AttrPayloads, partial \in BOOLEAN : AttrReject(data, partial)

InitAttribute ==
    /\ attr \in Attributes
    /\ attrOut = Empty
    /\ attrReq = NoReq
    /\ InitEmptyWorld /\ InitResp /\ InitReqs

SpecAttr == InitAttribute /\ [][NextAttr]_vars

-----------------------------------------------------------------------------
(* Outbound requests to the entity views, each served in one step.         *)

Serialize(view, obj) ==
    /\ out' = Repr(view, obj)
    /\ outView' = view
    /\ outObj' = obj
    /\ UNCHANGED <<lastReq, nWrites, attrVars, worldVars, reqVars>>

SerializeObject == \E obj \in Targets("object") : Serialize("object", obj)
SerializeAccount == Serialize("account", TheAccount)
SerializeScript == Serialize("script", TheScript)

Next == SerializeObject \/ SerializeAccount \/ SerializeScript

Init == InitAttr /\ InitWorld /\ InitResp /\ InitReqs

Spec == Init /\ [][Next]_vars

-----------------------------------------------------------------------------
(* Outbound requests served field by field, two at a time.                 *)
(* to_representation handles Meta.fields one after the other; each         *)
(* serializer instance owns the output it builds.                          *)

\* A variant that keeps one output on the class, shared by all requests.
OutAfterStepOnClass(r, f, v) == [q \in Reqs |-> Put(reqOut[q], f, v)]

\* The outputs after request r stored value v under key f.
OutAfterStep(r, f, v) == [reqOut EXCEPT ![r] = Put(@, f, v)]

\* A request arrives: Serializer(obj) is constructed.
Start(r, view, obj) ==
    /\ pc[r] = "idle"
    /\ pc' = [pc EXCEPT ![r] = "run"]
    /\ reqView' = [reqView EXCEPT ![r] = view]
    /\ reqObj' = [reqObj EXCEPT ![r] = obj]
    /\ reqPos' = [reqPos EXCEPT ![r] = 0]
    /\ reqOut' = [reqOut EXCEPT ![r] = Empty]
    /\ UNCHANGED <<attrVars, worldVars, respVars>>

\* What handling the next field does to the request.
StepRequest(r) ==
    /\ pc[r] = "run"
    /\ reqPos[r] < Len(Fields(reqView[r]))
    /\ LET f == Fields(reqView[r])[reqPos[r] + 1]
       IN  reqOut' = IF f \in WriteOnly(reqView[r]) THEN reqOut
                     ELSE OutAfterStep(r, f, FieldValue(reqView[r], f, reqObj[r]))
    /\ reqPos' = [reqPos EXCEPT ![r] = @ + 1]
    /\ UNCHANGED <<pc, reqView, reqObj>>

\* A variant whose session list is consumed by reading it.
StepDraining(r) ==
    /\ StepRequest(r)
    /\ sessions' = IF Fields(reqView[r])[reqPos[r] + 1] = "session_ids" THEN <<>> ELSE sessions
    /\ UNCHANGED <<attrVars, db_key, db_typeclass_path, db_tags, db_attributes, db_location,
                   db_home, destination, username, scriptdb, respVars>>

\* The next field of request r is handled: the entity is only read.
Step(r) ==
    /\ StepRequest(r)
    /\ UNCHANGED <<attrVars, worldVars, respVars>>

\* Every field is handled: the response is sent.
Finish(r) ==
    /\ pc[r] = "run"
    /\ reqPos[r] = Len(Fields(reqView[r]))
    /\ pc' = [pc EXCEPT ![r] = "done"]
    /\ UNCHANGED <<reqView, reqObj, reqPos, reqOut, attrVars, worldVars, respVars>>

NextReq ==
    \/ \E r \in Reqs, view \in Views : \E obj \in Targets(view) : Start(r, view, obj)
    \/ \E r \in Reqs : Step(r)
    \/ \E r \in Reqs : Finish(r)
    \/ AttrSerialize

InitReq == InitAttr /\ InitSmallWorld /\ InitResp /\ InitReqs

SpecReq == InitReq /\ [][NextReq]_vars

-----------------------------------------------------------------------------
(* Inbound requests to the entity views.                                   *)

\* validated_data: the payload's writable fields.
Validated(view, data) == Restrict(data, Range(Fields(view)) \ ReadOnly(view))

\* The keys of a payload that name an id, an attribute list or a computed field.
ProtectedKeys(view) ==
    Range(Fields(view)) \cap {"id", "db_attributes", "tags", "aliases", "permissions",
                               "contents", "exits", "session_ids"}

\* A value a client may send for a field.
Candidates(f) ==
    CASE f \in {"db_location", "db_home"} -> {None} \cup Ids
      [] f = "id" -> {99}
      [] f = "db_key" -> {"renamed"}
      [] f = "db_typeclass_path" -> {"typeclasses.other"}
      [] f = "username" -> {"root"}
      [] f \in {"db_persistent", "db_start_delay"} -> {TRUE}
      [] f = "db_is_active" -> {FALSE}
      [] f = "db_interval" -> {60}
      [] f = "db_repeats" -> {3}
      [] OTHER -> {<<"forged">>}

\* Payloads: none or all of the protected keys, and at most one other field.
Payloads(view) ==
    LET protected == [f \in ProtectedKeys(view) |-> CHOOSE c \in Candidates(f) : TRUE]
        others == {Empty} \cup UNION {{[g \in {f} |-> c] : c \in Candidates(f)}
                                      : f \in Range(Fields(view)) \ ProtectedKeys(view)}
    IN  {[f \in DOMAIN a \cup DOMAIN b |-> IF f \in DOMAIN a THEN a[f] ELSE b[f]]
         : a \in {Empty, protected}, b \in others}

\* Serializer(obj, data=data, partial=True), is_valid(), save():
\* ModelSerializer.update sets each validated field on the instance and
\* saves it; the response is the saved entity's representation.
Update(view, obj, data) ==
    /\ nWrites < MaxWrites
    /\ LET v == Validated(view, data)
       IN  /\ db_key' = IF "db_key" \in DOMAIN v
                        THEN [db_key EXCEPT ![obj] = v["db_key"]] ELSE db_key
           /\ db_typeclass_path' = IF "db_typeclass_path" \in DOMAIN v
                                   THEN [db_typeclass_path EXCEPT ![obj] = v["db_typeclass_path"]]
                                   ELSE db_typeclass_path
           /\ db_location' = IF "db_location" \in DOMAIN v
                             THEN [db_location EXCEPT ![Pk(obj)] = v["db_location"]]
                             ELSE db_location
           /\ db_home' = IF "db_home" \in DOMAIN v
                         THEN [db_home EXCEPT ![Pk(obj)] = v["db_home"]] ELSE db_home
           /\ username' = IF "username" \in DOMAIN v THEN v["username"] ELSE username
           /\ scriptdb' = [f \in DOMAIN scriptdb |-> IF f \in DOMAIN v THEN v[f] ELSE scriptdb[f]]
    /\ UNCHANGED <<db_tags, db_attributes, destination, sessions>>
    /\ nWrites' = nWrites + 1
    /\ lastReq' = [op |-> "write", view |-> view, obj |-> obj, data |-> data]
    /\ out' = Repr(view, obj)'
    /\ outView' = view
    /\ outObj' = obj
    /\ UNCHANGED <<attrVars, reqVars>>

NextWrite ==
    \/ \E view \in Views : \E obj \in Targets(view), data \in Payloads(view) :
          Update(view, obj, data)
    \/ SerializeObject
    \/ SerializeAccount
    \/ SerializeScript

InitWrite == InitAttr /\ InitBaseWorld /\ InitResp /\ InitReqs

SpecWrite == InitWrite /\ [][NextWrite]_vars

-----------------------------------------------------------------------------
(* Properties.                                                             *)

\* The ids listed in a sequence of object references.
ListedIds(refs) == {refs[i]["id"] : i \in DOMAIN refs}

\* How often id x is listed in refs.
TimesListed(refs, x) == Cardinality({i \in DOMAIN refs : refs[i]["id"] = x})

\* C1: in an Object view, exits lists exactly the objects located in the
\* serialized object whose destination is set, contents exactly those whose
\* destination is unset; every contained object is listed once, in exactly
\* one of the two lists, and no other object is listed.
C1_ExitsContentsPartition ==
    outView = "object" =>
        LET o == Pk(outObj)
        IN  \A x \in Ids :
              LET inside == x \in Range(Contents(o))
                  isExit == destination[x] # None
              IN  /\ TimesListed(out["exits"], x) = (IF inside /\ isExit THEN 1 ELSE 0)
                  /\ TimesListed(out["contents"], x) = (IF inside /\ ~isExit THEN 1 ELSE 0)
                  /\ ListedIds(out["exits"]) \cup ListedIds(out["contents"]) \subseteq Ids

\* An object was serialized that holds exactly one exit and one non-exit.
C1_Witness ==
    /\ outView = "object"
    /\ Len(out["exits"]) = 1
    /\ Len(out["contents"]) = 1
    /\ \E x, y \in Ids : /\ x # y
                         /\ db_location[x] = Pk(outObj) /\ destination[x] # None
                         /\ db_location[y] = Pk(outObj) /\ destination[y] = None

\* Whether output label x shows Tag row t.
Shows(x, t) ==
    /\ x["db_key"] = t.db_key
    /\ x["db_category"] = t.db_category
    /\ x["db_data"] = t.db_data
    /\ x["db_tagtype"] = t.db_tagtype

\* Every label of list is a row of the entity with the given tag type, and
\* no row of the entity with another tag type.
OnlyOfType(list, obj, tagtype) ==
    \A i \in DOMAIN list :
        /\ \E t \in db_tags[obj] : t.db_tagtype = tagtype /\ Shows(list[i], t)
        /\ \A t \in db_tags[obj] : t.db_tagtype # tagtype => ~Shows(list[i], t)

\* C2: in every full entity view the tags list holds only labels of the
\* entity's tag handler, aliases only labels of its alias handler and
\* permissions only labels of its permission handler; no label of one
\* handler is listed under another category.
C2_LabelsNeverMixed ==
    outView \in Views =>
        /\ OnlyOfType(out["tags"], outObj, NoTagType)
        /\ OnlyOfType(out["aliases"], outObj, "alias")
        /\ OnlyOfType(out["permissions"], outObj, "permission")

\* An entity carrying a tag, an alias and a permission was serialized.
C2_Witness ==
    /\ outView \in Views
    /\ Len(out["tags"]) >= 1
    /\ Len(out["aliases"]) >= 1
    /\ Len(out["permissions"]) >= 1

\* Whether the i-th connected session has a sessid.
HasSessid(i) == "sessid" \in DOMAIN sessions[i]

\* C4: in an Account view session_ids holds one entry per session that has a
\* sessid, in the session handler's order: its k-th entry is the sessid of
\* the k-th such session; sessions without a sessid add nothing.
C4_SessionIds ==
    outView = "account" =>
        /\ Len(out["session_ids"]) = Cardinality({i \in DOMAIN sessions : HasSessid(i)})
        /\ \A i \in DOMAIN sessions :
              HasSessid(i) =>
                  out["session_ids"][Cardinality({j \in 1 .. i : HasSessid(j)})]
                      = sessions[i].sessid

\* An account was serialized while a session without a sessid and one with a
\* sessid were connected.
C4_Witness ==
    /\ outView = "account"
    /\ \E i, j \in DOMAIN sessions : HasSessid(i) /\ ~HasSessid(j)
    /\ Len(out["session_ids"]) >= 1

\* C5: the keys of an Object, Account or Script view are exactly the
\* enumerated ones: the seven shared keys plus the view's own.
C5_KeySets ==
    LET shared == {"id", "db_key", "db_attributes", "db_typeclass_path",
                   "aliases", "tags", "permissions"}
    IN  /\ outView = "object" =>
              DOMAIN out = shared \cup {"db_location", "db_home", "contents", "exits"}
        /\ outView = "account" =>
              DOMAIN out = shared \cup {"username", "session_ids"}
        /\ outView = "script" =>
              DOMAIN out = shared \cup {"db_interval", "db_persistent", "db_start_delay",
                                        "db_is_active", "db_repeats"}

\* A script view was produced.
C5_Witness == outView = "script" /\ "db_repeats" \in DOMAIN out

\* C7: every entry of exits and contents carries only the id and the key of
\* the contained object, both plain values, whatever that object contains.
C7_ShallowReferences ==
    outView = "object" =>
        \A list \in {out["exits"], out["contents"]} :
            \A i \in DOMAIN list :
                /\ DOMAIN list[i] = {"id", "db_key"}
                /\ list[i]["id"] \in Ids
                /\ list[i]["db_key"] = db_key[Obj(list[i]["id"])]

\* An object was serialized that lies inside an object it contains, which
\* also holds an exit.
C7_Witness ==
    /\ outView = "object"
    /\ \E x \in Ids : /\ x # Pk(outObj)
                      /\ db_location[x] = Pk(outObj)
                      /\ db_location[Pk(outObj)] = x
                      /\ x \in ListedIds(out["contents"])
                      /\ \E y \in Ids : db_location[y] = x /\ destination[y] # None

\* C3 (as claimed): value_display is the stored string form whenever one
\* exists, the empty one included, and str(value) otherwise.
C3_StoredStringPreferred ==
    attrReq.op \in {"read", "write"} =>
        attrOut["value_display"] =
            (IF attr.db_strvalue.t = "str" THEN attr.db_strvalue.s ELSE Str(attr.db_value))

\* C6: the Attribute view never emits db_value and emits the other four
\* keys; a payload is never rejected for lacking db_value, a supplied
\* db_value is stored, and a supplied value_display changes nothing.
C6_WriteOnlyAndReadOnly ==
    /\ attrReq.op \in {"read", "write"} =>
          DOMAIN attrOut = {"db_key", "db_category", "db_attrtype", "value_display"}
    /\ attrReq.op = "invalid" =>
          ~({"db_key", "db_category", "db_attrtype"} \subseteq DOMAIN attrReq.data)
    /\ attrReq.op = "write" =>
          /\ attr.db_strvalue = attrReq.before.db_strvalue
          /\ attr.db_value = (IF "db_value" \in DOMAIN attrReq.data
                              THEN PyStr(attrReq.data["db_value"])
                              ELSE attrReq.before.db_value)

\* A full payload without db_value, carrying a value_display, was saved.
C6_Witness ==
    /\ attrReq.op = "write"
    /\ ~attrReq.partial
    /\ "value_display" \in DOMAIN attrReq.data
    /\ "db_value" \notin DOMAIN attrReq.data
    /\ attrReq.data["value_display"] # attrOut["value_display"]

\* The fields request r has handled so far that appear in the output.
Handled(r) ==
    {Fields(reqView[r])[i] : i \in 1 .. reqPos[r]} \ WriteOnly(reqView[r])

\* C8: a step of an outbound conversion leaves the entity's stored fields,
\* contents, attributes, tags, aliases, permissions and sessions as they were.
C8_ConversionsOnlyRead ==
    [][((\E r \in Reqs : pc'[r] # pc[r] \/ reqPos'[r] # reqPos[r]) \/ attrOut' # attrOut)
          => UNCHANGED <<attr, worldVars>>]_vars

\* An account with connected sessions, an object and an Attribute were
\* converted.
C8_Witness ==
    /\ attrReq.op = "read"
    /\ \E r \in Reqs : pc[r] = "done" /\ reqView[r] = "account"
    /\ \E r \in Reqs : pc[r] = "done" /\ reqView[r] = "object"
    /\ sessions # <<>>

\* C9: whatever the other request does, the output a conversion has built
\* is the part of the single-run output for the fields it has handled, and
\* its finished output is the single-run output: a function of the entity.
C9_ConvertersShareNothing ==
    \A r \in Reqs :
        /\ pc[r] \in {"run", "done"} =>
              reqOut[r] = Restrict(Repr(reqView[r], reqObj[r]), Handled(r))
        /\ pc[r] = "done" => reqOut[r] = Repr(reqView[r], reqObj[r])

\* Two conversions of the same object: one has finished, the other has
\* handled its computed lists and not yet its tags.
C9_Witness ==
    \E r, q \in Reqs :
        /\ pc[r] = "done" /\ pc[q] = "run"
        /\ reqView[r] = "object" /\ reqView[q] = "object"
        /\ reqObj[r] = reqObj[q]
        /\ "exits" \in DOMAIN reqOut[q]
        /\ "tags" \notin DOMAIN reqOut[q]
        /\ Len(reqOut[r]["exits"]) >= 1

\* C10 (as claimed): an inbound conversion and save leaves the entity's
\* attributes, tags, aliases, permissions, contents and sessions as they were.
C10_ProtectedUnchanged ==
    [][nWrites' = nWrites + 1 =>
          LET e == lastReq'.obj
          IN  /\ db_attributes'[e] = db_attributes[e]
              /\ db_tags'[e] = db_tags[e]
              /\ sessions' = sessions
              /\ e[1] = "object" =>
                    ContentsOf(db_location', Pk(e)) = ContentsOf(db_location, Pk(e))]_vars

=============================================================================
